---------------------------- MODULE Spec2Model ----------------------------
(***************************************************************************)
(* ClauseIQ (src/clauseiq_app.py): a Streamlit script that matches a user  *)
(* query against three clauses (FAISS IndexFlatL2), asks the Gemini API    *)
(* for a JSON decision, parses it and shows/exports it, behind a simulated *)
(* Firebase login.                                                         *)
(*                                                                         *)
(* Text is modelled as a sequence of one-character strings, so that        *)
(* json.dumps and json.loads are real conversions.  A Python value is the  *)
(* record [t, s, m]: t its type, s its characters (str, int, float), m its *)
(* members (dict: <<key, value>> pairs in insertion order; list:           *)
(* <<<<>>, value>> pairs).                                                 *)
(***************************************************************************)
EXTENDS Integers, Sequences, FiniteSets, TLC

\* ------------------------------------------------------------------ text
K_decision ==
    <<"d", "e", "c", "i", "s", "i", "o", "n">>

K_reason ==
    <<"r", "e", "a", "s", "o", "n">>

K_counterclause ==
    <<"c", "o", "u", "n", "t", "e", "r", "c", "l", "a", "u", "s", "e">>

K_clause_reference ==
    <<"c", "l", "a", "u", "s", "e", "_", "r", "e", "f", "e", "r", "e", "n", "c", "e">>

K_candidates ==
    <<"c", "a", "n", "d", "i", "d", "a", "t", "e", "s">>

K_content ==
    <<"c", "o", "n", "t", "e", "n", "t">>

K_parts ==
    <<"p", "a", "r", "t", "s">>

K_text ==
    <<"t", "e", "x", "t">>

S_error ==
    <<"e", "r", "r", "o", "r">>

S_approved ==
    <<"a", "p", "p", "r", "o", "v", "e", "d">>

S_rejected ==
    <<"r", "e", "j", "e", "c", "t", "e", "d">>

S_UnexpectedFormat ==
    <<"U", "n", "e", "x", "p", "e", "c", "t", "e", "d", " ", "A", "P", "I", " ", "r", "e", "s", "p", "o", "n", "s", "e", " ", "f", "o", "r", "m", "a", "t">>

S_ApiCallFailed ==
    <<"A", "P", "I", " ", "c", "a", "l", "l", " ", "f", "a", "i", "l", "e", "d", ":", " ">>

S_InvalidJsonFromApi ==
    <<"I", "n", "v", "a", "l", "i", "d", " ", "J", "S", "O", "N", " ", "f", "r", "o", "m", " ", "A", "P", "I", ":", " ">>

S_InvalidJsonResponse ==
    <<"I", "n", "v", "a", "l", "i", "d", " ", "J", "S", "O", "N", " ", "r", "e", "s", "p", "o", "n", "s", "e">>

S_null ==
    <<"n", "u", "l", "l">>

S_true ==
    <<"t", "r", "u", "e">>

S_false ==
    <<"f", "a", "l", "s", "e">>

\* the four fields of a decision record, in the order the code writes them
FourFields ==
    <<K_decision, K_reason, K_counterclause, K_clause_reference>>

\* F applied to the value of x, x evaluated once
With(x, F(_)) ==
    CHOOSE y \in {F(v) : v \in {x}} : TRUE

\* ---------------------------------------------------------- Python values
PyNone ==
    [t |-> "None", s |-> <<>>, m |-> <<>>]

PyStr(s) ==
    [t |-> "str", s |-> s, m |-> <<>>]

PyInt(s) ==
    [t |-> "int", s |-> s, m |-> <<>>]

PyFloat(s) ==
    [t |-> "float", s |-> s, m |-> <<>>]

PyBool(b) ==
    [t |-> "bool", s |-> IF b THEN S_true ELSE S_false, m |-> <<>>]

PyDict(m) ==
    [t |-> "dict", s |-> <<>>, m |-> m]

PyList(items) ==
    [t |-> "list", s |-> <<>>, m |-> [i \in 1..Len(items) |-> <<<<>>, items[i]>>]]

\* d[k] = v on the member list of a dict: an existing key keeps its place
DictSet(m, k, v) ==
    IF \E i \in 1..Len(m) : m[i][1] = k
    THEN [i \in 1..Len(m) |-> IF m[i][1] = k THEN <<k, v>> ELSE m[i]]
    ELSE Append(m, <<k, v>>)

HasKey(d, k) ==
    d.t = "dict" /\ \E i \in 1..Len(d.m) : d.m[i][1] = k

Lookup(d, k) ==
    d.m[CHOOSE i \in 1..Len(d.m) : d.m[i][1] = k][2]

\* the outcome of an expression that may raise: [ok, v, exc]
Ok(v) ==
    [ok |-> TRUE, v |-> v, exc |-> "none"]

Raise(cls) ==
    [ok |-> FALSE, v |-> PyNone, exc |-> cls]

\* bool(v)
Truthy(v) ==
    CASE v.t = "None" -> FALSE
      [] v.t = "bool" -> v.s = S_true
      [] v.t = "str" -> Len(v.s) > 0
      [] v.t \in {"dict", "list"} -> Len(v.m) > 0
      [] v.t = "int" -> v.s # <<"0">>
      [] OTHER -> TRUE

\* v.get(k): a dict method, AttributeError on every other type
Get(v, k) ==
    IF v.t # "dict" THEN Raise("AttributeError")
    ELSE IF HasKey(v, k) THEN Ok(Lookup(v, k)) ELSE Ok(PyNone)

\* v[k] with a str key
Subscript(v, k) ==
    CASE v.t = "dict" -> IF HasKey(v, k) THEN Ok(Lookup(v, k)) ELSE Raise("KeyError")
      [] OTHER -> Raise("TypeError")

\* v[0]
Index0(v) ==
    CASE v.t = "list" -> IF Len(v.m) > 0 THEN Ok(v.m[1][2]) ELSE Raise("IndexError")
      [] v.t = "str" -> IF Len(v.s) > 0 THEN Ok(PyStr(<<v.s[1]>>)) ELSE Raise("IndexError")
      [] v.t = "dict" -> Raise("KeyError")
      [] OTHER -> Raise("TypeError")

\* ------------------------------------------------------------ json.dumps
\* json.dumps that writes every character as it is
EscapeChar_raw(c) ==
    <<c>>

EscapeChar(c) ==
    CASE c = "\"" -> <<"\\", "\"">>
      [] c = "\\" -> <<"\\", "\\">>
      [] c = "\n" -> <<"\\", "n">>
      [] c = "\t" -> <<"\\", "t">>
      [] c = "\r" -> <<"\\", "r">>
      [] c = "\f" -> <<"\\", "f">>
      [] OTHER -> <<c>>

\* the escapes of the characters s[lo..hi], joined (by halves)
RECURSIVE EscapeRange(_, _, _)
EscapeRange(s, lo, hi) ==
    IF lo > hi THEN <<>>
    ELSE IF lo = hi THEN EscapeChar(s[lo])
    ELSE With((lo + hi) \div 2,
              LAMBDA mid : EscapeRange(s, lo, mid) \o EscapeRange(s, mid + 1, hi))

EscapeString(s) ==
    With(s, LAMBDA x : EscapeRange(x, 1, Len(x)))

EncodeString(s) ==
    <<"\"">> \o EscapeString(s) \o <<"\"">>

RECURSIVE JsonDumps(_)
RECURSIVE DumpMembers(_, _)
DumpMembers(m, isDict) ==
    IF m = <<>> THEN <<>>
    ELSE (IF isDict THEN EncodeString(m[1][1]) \o <<":", " ">> ELSE <<>>)
         \o JsonDumps(m[1][2])
         \o (IF Len(m) > 1 THEN <<",", " ">> ELSE <<>>)
         \o With(Tail(m), LAMBDA rest : DumpMembers(rest, isDict))

\* json.dumps(v), with the default separators
JsonDumps(v) ==
    With(v, LAMBDA x :
        CASE x.t = "str" -> EncodeString(x.s)
          [] x.t = "dict" -> <<"{">> \o DumpMembers(x.m, TRUE) \o <<"}">>
          [] x.t = "list" -> <<"[">> \o DumpMembers(x.m, FALSE) \o <<"]">>
          [] x.t = "None" -> S_null
          [] OTHER -> x.s)

\* ------------------------------------------------------------ json.loads
Whitespace ==
    {" ", "\n", "\t", "\r"}

Digits ==
    {"0", "1", "2", "3", "4", "5", "6", "7", "8", "9"}

\* a decoder step: the value and the index after it, or a JSONDecodeError
Dec(v, i) ==
    [ok |-> TRUE, v |-> v, i |-> i]

DecErr ==
    [ok |-> FALSE, v |-> PyNone, i |-> 0]

RECURSIVE SkipWs(_, _)
SkipWs(t, i) ==
    IF i <= Len(t) /\ t[i] \in Whitespace THEN SkipWs(t, i + 1) ELSE i

StartsWith(t, i, w) ==
    /\ i + Len(w) - 1 <= Len(t)
    /\ \A j \in 1..Len(w) : t[i + j - 1] = w[j]

\* a decoder that drops the backslash and keeps the letter
Unescape_letter(c) ==
    c

Unescape(c) ==
    CASE c = "n" -> "\n"
      [] c = "t" -> "\t"
      [] c = "r" -> "\r"
      [] c = "f" -> "\f"
      [] OTHER -> c

\* the number of backslashes that end right before t[j], from t[i] on
BackslashRun(t, i, j) ==
    IF j <= i \/ t[j - 1] # "\\" THEN 0
    ELSE LET stops == {k \in (i - 1)..(j - 1) : k = i - 1 \/ t[k] # "\\"}
         IN  (j - 1) - (CHOOSE k \in stops : \A l \in stops : l <= k)

\* t[j] is the second character of an escape of the string that starts at t[i]
IsEscaped(t, i, j) ==
    BackslashRun(t, i, j) % 2 = 1

\* the index of the quote that closes the string starting at t[i], 0 if none
StringEnd(t, i) ==
    LET ends == {j \in i..Len(t) : t[j] = "\"" /\ ~IsEscaped(t, i, j)}
    IN  IF ends = {} THEN 0 ELSE CHOOSE j \in ends : \A l \in ends : j <= l

\* the decoded characters of t[lo..hi], inside the string starting at t[i]
RECURSIVE DecodeRange(_, _, _, _)
DecodeRange(t, i, lo, hi) ==
    IF lo > hi THEN <<>>
    ELSE IF lo = hi
         THEN IF IsEscaped(t, i, lo) THEN <<Unescape(t[lo])>>
              ELSE IF t[lo] = "\\" THEN <<>>
              ELSE <<t[lo]>>
    ELSE With((lo + hi) \div 2,
              LAMBDA mid : DecodeRange(t, i, lo, mid) \o DecodeRange(t, i, mid + 1, hi))

\* scanstring with strict=True, from the character after the opening quote:
\* no raw control character, and only the escapes \" \\ \/ \n \t \r \f
\* (\b and \uXXXX are outside the alphabet)
ScanString(t, i, acc) ==
    With(StringEnd(t, i), LAMBDA e :
        IF e = 0 THEN DecErr
        ELSE IF \E j \in i..(e - 1) :
                   \/ t[j] \in {"\n", "\t", "\r", "\f"}
                   \/ /\ IsEscaped(t, i, j)
                      /\ t[j] \notin {"\"", "\\", "/", "n", "t", "r", "f"}
        THEN DecErr
        ELSE Dec(PyStr(acc \o DecodeRange(t, i, i, e - 1)), e + 1))

RECURSIVE DigitsEnd(_, _)
DigitsEnd(t, i) ==
    IF i <= Len(t) /\ t[i] \in Digits THEN DigitsEnd(t, i + 1) ELSE i

\* NUMBER_RE: -?(0|[1-9]\d*)(\.\d+)?  (exponents are outside the alphabet)
ScanNumber(t, i) ==
    With(IF i <= Len(t) /\ t[i] = "-" THEN i + 1 ELSE i, LAMBDA i0 :
    With(IF i0 <= Len(t) /\ t[i0] = "0" THEN i0 + 1 ELSE DigitsEnd(t, i0), LAMBDA i1 :
    With(IF i1 + 1 <= Len(t) /\ t[i1] = "." /\ t[i1 + 1] \in Digits
         THEN DigitsEnd(t, i1 + 1) ELSE i1, LAMBDA i2 :
        IF i1 = i0 THEN DecErr
        ELSE IF i2 > i1 THEN Dec(PyFloat(SubSeq(t, i, i2 - 1)), i2)
        ELSE Dec(PyInt(SubSeq(t, i, i1 - 1)), i1))))

RECURSIVE ScanOnce(_, _)
RECURSIVE ScanObject(_, _, _)
RECURSIVE ScanArray(_, _, _)

\* JSONObject after the value v of the key k: the closing brace or a comma
ObjectAfterValue(t, m, k, v) ==
    IF ~v.ok THEN DecErr
    ELSE With(SkipWs(t, v.i), LAMBDA e :
        IF e <= Len(t) /\ t[e] = "}" THEN Dec(PyDict(DictSet(m, k.v.s, v.v)), e + 1)
        ELSE IF e <= Len(t) /\ t[e] = ","
             THEN With(DictSet(m, k.v.s, v.v),
                       LAMBDA m1 : ScanObject(t, SkipWs(t, e + 1), m1))
        ELSE DecErr)

\* JSONObject after the key k: the colon and the value
ObjectAfterKey(t, m, k) ==
    IF ~k.ok THEN DecErr
    ELSE With(SkipWs(t, k.i), LAMBDA c :
        IF ~(c <= Len(t) /\ t[c] = ":") THEN DecErr
        ELSE With(ScanOnce(t, SkipWs(t, c + 1)),
                  LAMBDA v : ObjectAfterValue(t, m, k, v)))

\* JSONObject, at the first key or the closing brace; m: the pairs so far
ScanObject(t, i, m) ==
    IF ~(i <= Len(t) /\ t[i] = "\"") THEN DecErr
    ELSE With(ScanString(t, i + 1, <<>>), LAMBDA k : ObjectAfterKey(t, m, k))

\* JSONArray after the element v: the closing bracket or a comma
ArrayAfterValue(t, items, v) ==
    IF ~v.ok THEN DecErr
    ELSE With(SkipWs(t, v.i), LAMBDA e :
        IF e <= Len(t) /\ t[e] = "]" THEN Dec(PyList(Append(items, v.v)), e + 1)
        ELSE IF e <= Len(t) /\ t[e] = ","
             THEN With(Append(items, v.v),
                       LAMBDA items1 : ScanArray(t, SkipWs(t, e + 1), items1))
        ELSE DecErr)

\* JSONArray, at an element; items: the values so far
ScanArray(t, i, items) ==
    With(ScanOnce(t, i), LAMBDA v : ArrayAfterValue(t, items, v))

\* scanner.py_make_scanner._scan_once
ScanOnce(t, i) ==
    With(i, LAMBDA i0 :
    IF i0 > Len(t) THEN DecErr
    ELSE IF t[i0] = "\"" THEN ScanString(t, i0 + 1, <<>>)
    ELSE IF t[i0] = "{"
         THEN With(SkipWs(t, i0 + 1), LAMBDA j :
                  IF j <= Len(t) /\ t[j] = "}" THEN Dec(PyDict(<<>>), j + 1)
                  ELSE ScanObject(t, j, <<>>))
    ELSE IF t[i0] = "["
         THEN With(SkipWs(t, i0 + 1), LAMBDA j :
                  IF j <= Len(t) /\ t[j] = "]" THEN Dec(PyList(<<>>), j + 1)
                  ELSE ScanArray(t, j, <<>>))
    ELSE IF StartsWith(t, i0, S_null) THEN Dec(PyNone, i0 + 4)
    ELSE IF StartsWith(t, i0, S_true) THEN Dec(PyBool(TRUE), i0 + 4)
    ELSE IF StartsWith(t, i0, S_false) THEN Dec(PyBool(FALSE), i0 + 5)
    ELSE ScanNumber(t, i0))

\* json.loads(t): Ok(value), or Raise("JSONDecodeError") (also on extra data)
JsonLoads(t) ==
    With(t, LAMBDA x :
    With(ScanOnce(x, SkipWs(x, 1)), LAMBDA r :
        IF r.ok /\ SkipWs(x, r.i) = Len(x) + 1 THEN Ok(r.v)
        ELSE Raise("JSONDecodeError")))

\* ------------------------------------------------- clauses and the index
\* bound on the coordinates of the embedding vectors drawn for the search
MaxCoord ==
    2

\* embeddings of the clauses, for the runs of the app
SampleEmbeddings ==
    << <<0, 0>>, <<2, 0>>, <<0, 2>> >>

\* dimension of the embedding vectors of the model
Dim ==
    Len(SampleEmbeddings[1])

Vectors ==
    [1..Dim -> 0..MaxCoord]

clauses ==
    << "Clause 5.1: Surgery covered only after 4 months of continuous policy.",
       "Clause 3.2: Surgery due to accident may be exempt from waiting period.",
       "Clause 6.4: Portability clause allows prior policy duration to be counted." >>

\* k of index.search in get_top_clause
TopK ==
    2

RECURSIVE SumSq(_, _, _)
SumSq(a, b, i) ==
    IF i > Len(a) THEN 0
    ELSE (a[i] - b[i]) * (a[i] - b[i]) + SumSq(a, b, i + 1)

\* the metric of IndexFlatL2: squared Euclidean distance
L2Sqr(a, b) ==
    SumSq(a, b, 1)

\* a scan in which a vector as near as a kept one goes in front of it
AddResult_front(best, cand, k) ==
    LET pos == Cardinality({j \in 1..Len(best) : best[j].d < cand.d})
        ins == SubSeq(best, 1, pos) \o <<cand>> \o SubSeq(best, pos + 1, Len(best))
    IN  IF Len(ins) > k THEN SubSeq(ins, 1, k) ELSE ins

\* one scanned vector offered to the k best so far (best: ascending): it goes
\* behind every entry that is not farther, and the k nearest are kept
AddResult(best, cand, k) ==
    LET pos == Cardinality({j \in 1..Len(best) : best[j].d <= cand.d})
        ins == SubSeq(best, 1, pos) \o <<cand>> \o SubSeq(best, pos + 1, Len(best))
    IN  IF Len(ins) > k THEN SubSeq(ins, 1, k) ELSE ins

RECURSIVE ScanVectors(_, _, _, _, _)
ScanVectors(xb, q, k, i, best) ==
    IF i > Len(xb) THEN best
    ELSE With(AddResult(best, [d |-> L2Sqr(q, xb[i]), id |-> i - 1], k),
              LAMBDA best1 : ScanVectors(xb, q, k, i + 1, best1))

\* index.search(q, k) on an IndexFlatL2 holding xb: the labels I[0], 0-based,
\* nearest first, padded with -1 when fewer than k vectors are stored
IndexSearch(xb, q, k) ==
    With(ScanVectors(xb, q, k, 1, <<>>), LAMBDA best :
        [j \in 1..k |-> IF j <= Len(best) THEN best[j].id ELSE -1])

\* lst[i] of a Python list, i a 0-based index that may be negative
PyIndex(lst, i) ==
    IF i >= 0 THEN lst[i + 1] ELSE lst[Len(lst) + i + 1]

\* get_top_clause, given the embedding of the query
get_top_clause(xb, q) ==
    With(IndexSearch(xb, q, TopK), LAMBDA I :
        [j \in 1..Len(I) |-> PyIndex(clauses, I[j])])

\* --------------------------------------------------- the remote service
\* bound on the remote calls followed for one query (script runs on it)
MaxCalls ==
    3

\* str(e) of the exceptions raised by requests
Messages ==
    { <<"t", "i", "m", "e", "d", " ", "o", "u", "t">>,
      <<"4", "0", "3", " ", "\"", "k", "e", "y", "\"", " ", "\\", "\n">> }

S_ExpectingValue ==
    <<"E", "x", "p", "e", "c", "t", "i", "n", "g", " ", "v", "a", "l", "u", "e">>

\* the error record the code writes at lines 120, 124, 127 and 362
ErrRecord(reason) ==
    PyDict(<< <<K_decision, PyStr(S_error)>>,
              <<K_reason, PyStr(reason)>>,
              <<K_counterclause, PyStr(<<>>)>>,
              <<K_clause_reference, PyStr(<<>>)>> >>)

Record(d, r, c, ref) ==
    PyDict(<< <<K_decision, PyStr(d)>>,
              <<K_reason, PyStr(r)>>,
              <<K_counterclause, PyStr(c)>>,
              <<K_clause_reference, PyStr(ref)>> >>)

\* objects with the four fields that the service may generate
FullRecords ==
    { Record(d, r, c, <<"5", ".", "1">>) :
        d \in {S_approved, S_rejected},
        r \in {<<"r">>, <<"a", "\"", "\\", "\n", "/">>},
        c \in {<<>>, <<"c">>} }

\* other JSON values that the service may generate
OddValues ==
    { PyDict(<<>>),
      PyDict(<< <<K_decision, PyStr(S_approved)>> >>),
      PyDict(<< <<K_reason, PyStr(<<"r">>)>>, <<K_counterclause, PyStr(<<>>)>>,
                <<K_clause_reference, PyStr(<<>>)>> >>),
      Record(<<"m", "a", "y", "b", "e">>, <<"r">>, <<"c">>, <<"3", ".", "2">>),
      PyList(<<Record(S_approved, <<"r">>, <<"c">>, <<"5", ".", "1">>)>>),
      PyStr(S_approved),
      PyInt(<<"1">>),
      PyNone }

\* generated texts that are not JSON
GarbageTexts ==
    { <<>>, <<"n", "o", "t", " ", "j", "s", "o", "n">> }

\* the envelope of generateContent around a part
Envelope(part) ==
    PyDict(<< <<K_candidates,
                PyList(<< PyDict(<< <<K_content,
                    PyDict(<< <<K_parts, PyList(<<part>>)>> >>)>> >>) >>)>> >>)

TextPart(text) ==
    PyDict(<< <<K_text, PyStr(text)>> >>)

\* envelopes that lack a field on the path candidates[0].content.parts[0].text
LackingEnvelopes ==
    { PyDict(<<>>),
      PyDict(<< <<K_candidates, PyList(<<>>)>> >>),
      PyDict(<< <<K_candidates, PyList(<<PyDict(<<>>)>>)>> >>),
      PyDict(<< <<K_candidates, PyList(<< PyDict(<< <<K_content, PyDict(<<>>)>> >>) >>)>> >>),
      PyDict(<< <<K_candidates, PyList(<< PyDict(<< <<K_content,
                    PyDict(<< <<K_parts, PyList(<<>>)>> >>)>> >>) >>)>> >>),
      Envelope(PyDict(<<>>)) }

\* a response of requests.post: kind "network" (post raises), "status"
\* (raise_for_status raises) or "ok" with the body; shape, text and sent
\* record what the service put in the body
Resp(kind, msg, body, shape, text, sent) ==
    [kind |-> kind, msg |-> msg, body |-> body, shape |-> shape,
     text |-> text, sent |-> sent]

NoResp ==
    Resp("none", <<>>, <<>>, "none", <<>>, PyNone)

Responses ==
    { Resp(k, m, <<>>, "none", <<>>, PyNone) : k \in {"network", "status"}, m \in Messages }
    \cup { Resp("ok", <<>>, <<"<", "h", "t", "m", "l", ">">>, "nojson", <<>>, PyNone) }
    \cup { Resp("ok", <<>>, JsonDumps(e), "lacking", <<>>, PyNone) : e \in LackingEnvelopes }
    \cup { Resp("ok", <<>>, JsonDumps(Envelope(TextPart(t))), "garbage", t, PyNone) :
             t \in GarbageTexts }
    \cup { Resp("ok", <<>>, JsonDumps(Envelope(TextPart(JsonDumps(v)))), "json", JsonDumps(v), v) :
             v \in FullRecords \cup OddValues }
    \cup { Resp("ok", <<>>, JsonDumps(Envelope(TextPart(<<"\n", " ">> \o JsonDumps(v) \o <<"\n">>))),
                "json", <<"\n", " ">> \o JsonDumps(v) \o <<"\n">>, v) :
             v \in {Record(S_rejected, <<"r">>, <<"c">>, <<"5", ".", "1">>)} }

\* the exception class of response.json() on a body that is not JSON:
\* requests.exceptions.JSONDecodeError is a RequestException since requests
\* 2.27, json.JSONDecodeError alone before
JsonExcClasses ==
    {"RequestException", "JSONDecodeError"}

\* what get_llm_decision does: return v (at line), or raise exc
Return(v, line) ==
    [ok |-> TRUE, v |-> v, exc |-> "none", line |-> line]

Escape(cls) ==
    [ok |-> FALSE, v |-> PyNone, exc |-> cls, line |-> 0]

\* line 120: the record of an envelope without candidates, content or parts
UnexpectedFormat ==
    Return(PyStr(JsonDumps(ErrRecord(S_UnexpectedFormat))), 120)

\* get_llm_decision from requests.post on: r the response, cls the class of
\* the exception of response.json()
get_llm_decision(r, cls) ==
    IF r.kind \in {"network", "status"}
    THEN Return(PyStr(JsonDumps(ErrRecord(S_ApiCallFailed \o r.msg))), 124)
    ELSE With(JsonLoads(r.body), LAMBDA result :
      IF ~result.ok
      THEN IF cls = "RequestException"
           THEN Return(PyStr(JsonDumps(ErrRecord(S_ApiCallFailed \o S_ExpectingValue))), 124)
           ELSE Return(PyStr(JsonDumps(ErrRecord(S_InvalidJsonFromApi \o S_ExpectingValue))), 127)
      ELSE With(Get(result.v, K_candidates), LAMBDA cands :
        IF ~cands.ok THEN Escape(cands.exc)
        ELSE IF ~Truthy(cands.v) THEN UnexpectedFormat
        ELSE With(Index0(cands.v), LAMBDA cand0 :
          IF ~cand0.ok THEN Escape(cand0.exc)
          ELSE With(Get(cand0.v, K_content), LAMBDA content :
            IF ~content.ok THEN Escape(content.exc)
            ELSE IF ~Truthy(content.v) THEN UnexpectedFormat
            ELSE With(Get(content.v, K_parts), LAMBDA parts :
              IF ~parts.ok THEN Escape(parts.exc)
              ELSE IF ~Truthy(parts.v) THEN UnexpectedFormat
              ELSE With(Index0(parts.v), LAMBDA part0 :
                IF ~part0.ok THEN Escape(part0.exc)
                ELSE With(Subscript(part0.v, K_text), LAMBDA text :
                  IF ~text.ok THEN Escape(text.exc)
                  ELSE Return(text.v, 117))))))))

\* json.loads(decision) without the except clause
ParseDecision_noexcept(d) ==
    IF d.t # "str" THEN Raise("TypeError")
    ELSE With(JsonLoads(d.s), LAMBDA r :
             IF r.ok THEN Ok(r.v) ELSE Raise("JSONDecodeError"))

\* main_app_page, lines 358-362: json.loads(decision) under except
\* json.JSONDecodeError (json.loads of a value that is no str: TypeError)
ParseDecision(d) ==
    IF d.t # "str" THEN Raise("TypeError")
    ELSE With(JsonLoads(d.s), LAMBDA r :
             IF r.ok THEN Ok(r.v) ELSE Ok(ErrRecord(S_InvalidJsonResponse)))

\* main_app_page, lines 386-394: the summary reads the four fields in turn
RECURSIVE ReadFields(_, _)
ReadFields(p, fields) ==
    IF fields = <<>> THEN Ok(PyNone)
    ELSE IF ~Subscript(p, Head(fields)).ok THEN Raise(Subscript(p, Head(fields)).exc)
    ELSE ReadFields(p, Tail(fields))

ExportSummary(p) ==
    ReadFields(p, FourFields)

\* get_llm_decision on every response of the service, computed once
LlmOutcomes ==
    { [r |-> r, out |-> get_llm_decision(r, cls)] :
        r \in Responses, cls \in JsonExcClasses }

\* json.loads under lines 358-362 on every string get_llm_decision returns,
\* computed once
ParseOutcomes ==
    { [d |-> x.out.v, p |-> ParseDecision(x.out.v)] :
        x \in {y \in LlmOutcomes : y.out.ok} }

\* ---------------------------------------------------------------- state
VARIABLES
    apps,                  \* firebase_admin._apps holds the default app (process-wide)
    embeddings,            \* model.encode(clauses), the rows of the index
    token,                 \* __initial_auth_token: "absent" or "present"
    firebase_initialized,  \* st.session_state: "unset", "true", "false"
    logged_in,             \* st.session_state.logged_in
    user_id,               \* st.session_state.user_id: "None" or a uid
    auth_error,            \* st.session_state.auth_error
    page,                  \* what the last script run rendered
    user_query,            \* the value of the text input of main_app_page
    clicked,               \* the button whose click started the running script
    download_shown,        \* the Download Summary button is on the page
    pc,                    \* the stage of the running script, "idle" between runs
    query_vec,             \* get_top_clause: the embedding of the query
    top_clauses,           \* main_app_page: the matched clauses
    prompt,                \* get_llm_decision: the prompt sent
    resp,                  \* the response of requests.post in this run
    decision,              \* main_app_page: what get_llm_decision returned
    parsed,                \* main_app_page: the record shown and exported
    exc,                   \* the exception that ended the last script run
    calls,                 \* remote calls issued for the current query
    produced,              \* records produced for the current query
    first_record,          \* the first record produced for the current query
    peer_initialized,      \* firebase_initialized in a second session's state
    peer_exc               \* the exception that ended the second session's last run

vars ==
    << apps, embeddings, token, firebase_initialized, logged_in, user_id,
       auth_error, page, user_query, clicked, download_shown, pc, query_vec,
       top_clauses, prompt, resp, decision, parsed, exc, calls, produced,
       first_record, peer_initialized, peer_exc >>

sessionVars ==
    << apps, firebase_initialized, logged_in, user_id, auth_error >>

runVars ==
    << query_vec, top_clauses, prompt, resp, decision, parsed >>

ghostVars ==
    << calls, produced, first_record >>

\* the second session served by the same process
peerVars ==
    << peer_initialized, peer_exc >>

NoExc ==
    [type |-> "none", at |-> "none"]

\* the query the user may type
Queries ==
    {"My dad had knee surgery, policy is 3 months old"}

\* embeddings of the queries, for the runs of the app
QueryVecs ==
    { <<1, 1>>, <<0, 1>> }

NoVec ==
    <<>>

RunDefaults ==
    /\ query_vec' = NoVec
    /\ top_clauses' = <<>>
    /\ prompt' = <<>>
    /\ resp' = NoResp
    /\ decision' = PyNone
    /\ parsed' = PyNone

Init ==
    /\ apps = FALSE
    /\ embeddings = SampleEmbeddings
    /\ token \in {"absent", "present"}
    /\ firebase_initialized = "unset"
    /\ logged_in = FALSE
    /\ user_id = "None"
    /\ auth_error = ""
    /\ page = "none"
    /\ user_query = ""
    /\ clicked = "none"
    /\ download_shown = FALSE
    /\ pc = "idle"
    /\ query_vec = NoVec
    /\ top_clauses = <<>>
    /\ prompt = <<>>
    /\ resp = NoResp
    /\ decision = PyNone
    /\ parsed = PyNone
    /\ exc = NoExc
    /\ calls = 0
    /\ produced = 0
    /\ first_record = PyNone
    /\ peer_initialized = "unset"
    /\ peer_exc = NoExc

\* ------------------------------------------------------- one script run
\* The script from its first line to the page it dispatches to, started with
\* the button c clicked, q in the text input, the session flags li, uid, ae
\* (as the callback of the click left them), fresh: q is a new query.
\* initOk: initialize_app succeeds; autoOk: sign_in_with_custom_token
\* succeeds; verifyOk: verify_id_token succeeds.
RunScript(c, q, li, uid, ae, fresh, initOk, autoOk, verifyOk) ==
    LET apps1 == apps \/ initOk
        fi1 == IF apps THEN firebase_initialized
               ELSE IF initOk THEN "true" ELSE "false"
        auto == fi1 = "true" /\ token = "present" /\ ~li
        direct == ~auto /\ li
        onLogin == ~direct /\ ~(auto /\ autoOk)
        loginIf == c = "login" /\ fi1 = "true" /\ token = "present"
        loginRerun == onLogin /\ loginIf /\ verifyOk
        toMain == direct \/ (auto /\ autoOk) \/ loginRerun
        q1 == IF loginRerun THEN "" ELSE q
        ae0 == IF auto THEN "Automatic login failed" ELSE ae
        ae1 == CASE c = "login" /\ loginIf /\ verifyOk -> ""
                 [] c = "login" /\ loginIf /\ ~verifyOk -> "Login failed"
                 [] c = "login" /\ ~loginIf -> "Login failed: No authentication token available"
                 [] c = "create" /\ fi1 = "true" -> "Please note"
                 [] c = "create" /\ fi1 # "true" -> "Account creation failed"
                 [] OTHER -> ae0
    IN  /\ apps' = apps1
        /\ firebase_initialized' = fi1
        /\ download_shown' = FALSE
        /\ RunDefaults
        /\ IF ~apps1
           THEN \* line 32: firestore.client() without a default app
                /\ exc' = [type |-> "ValueError", at |-> "firestore"]
                /\ page' = "crash"
                /\ pc' = "idle"
                /\ clicked' = "none"
                /\ logged_in' = li /\ user_id' = uid /\ auth_error' = ae
                /\ user_query' = q
                /\ UNCHANGED ghostVars
           ELSE IF fi1 = "unset"
           THEN \* line 433: the session has no firebase_initialized
                /\ exc' = [type |-> "AttributeError", at |-> "entry"]
                /\ page' = "crash"
                /\ pc' = "idle"
                /\ clicked' = "none"
                /\ logged_in' = li /\ user_id' = uid /\ auth_error' = ae
                /\ user_query' = q
                /\ UNCHANGED ghostVars
           ELSE IF toMain
           THEN \* main_app_page, after st.rerun() when the run logged in
                /\ q1 # "" => (fresh \/ calls < MaxCalls)
                /\ exc' = NoExc
                /\ page' = "main"
                /\ logged_in' = TRUE
                /\ user_id' = IF direct THEN uid ELSE "uid"
                /\ auth_error' = IF loginRerun THEN "" ELSE ae
                /\ user_query' = q1
                /\ clicked' = IF direct /\ q1 # "" THEN c ELSE "none"
                /\ pc' = IF q1 # "" THEN "QueryReceived" ELSE "idle"
                /\ IF fresh \/ q1 = ""
                   THEN calls' = 0 /\ produced' = 0 /\ first_record' = PyNone
                   ELSE UNCHANGED ghostVars
           ELSE \* login_page, with login_user or create_account on a click
                /\ exc' = NoExc
                /\ page' = "login"
                /\ logged_in' = (li \/ loginIf)
                /\ user_id' = uid
                /\ auth_error' = ae1
                /\ user_query' = ""
                /\ clicked' = "none"
                /\ pc' = "idle"
                /\ calls' = 0 /\ produced' = 0 /\ first_record' = PyNone

\* -------------------------------------------------------------- events
\* the user opens the app, or runs the script again after it failed to start
ScriptRun ==
    /\ pc = "idle"
    /\ page \in {"none", "crash"}
    /\ \E initOk, autoOk \in BOOLEAN :
         RunScript("none", user_query, logged_in, user_id, auth_error,
                   FALSE, initOk, autoOk, FALSE)
    /\ UNCHANGED <<embeddings, token, peerVars>>

TextInputShown ==
    pc = "idle" /\ page = "main" /\ exc.at \in {"none", "llm", "parse", "export"}

ResultsShown ==
    pc = "idle" /\ page = "main" /\ user_query # "" /\ exc.at \in {"none", "export"}

LogoutShown ==
    pc = "idle" /\ page = "main" /\ exc.at = "none"

\* the user types a query (or clears the text input)
SubmitQuery ==
    /\ TextInputShown
    /\ \E q \in (Queries \cup {""}) \ {user_query} :
         RunScript("none", q, logged_in, user_id, auth_error, TRUE, FALSE, FALSE, FALSE)
    /\ UNCHANGED <<embeddings, token, peerVars>>

ClickBook ==
    /\ ResultsShown
    /\ RunScript("book", user_query, logged_in, user_id, auth_error,
                 FALSE, FALSE, FALSE, FALSE)
    /\ UNCHANGED <<embeddings, token, peerVars>>

ClickExport ==
    /\ ResultsShown
    /\ RunScript("export", user_query, logged_in, user_id, auth_error,
                 FALSE, FALSE, FALSE, FALSE)
    /\ UNCHANGED <<embeddings, token, peerVars>>

ClickDownload ==
    /\ ResultsShown
    /\ download_shown
    /\ RunScript("download", user_query, logged_in, user_id, auth_error,
                 FALSE, FALSE, FALSE, FALSE)
    /\ UNCHANGED <<embeddings, token, peerVars>>

\* Logout: the callback logout_user, then the script
ClickLogout ==
    /\ LogoutShown
    /\ \E autoOk \in BOOLEAN :
         RunScript("none", user_query, FALSE, "None", "", FALSE, FALSE, autoOk, FALSE)
    /\ UNCHANGED <<embeddings, token, peerVars>>

ClickLogin ==
    /\ pc = "idle" /\ page = "login"
    /\ \E autoOk, verifyOk \in BOOLEAN :
         RunScript("login", user_query, logged_in, user_id, auth_error,
                   FALSE, FALSE, autoOk, verifyOk)
    /\ UNCHANGED <<embeddings, token, peerVars>>

ClickCreateAccount ==
    /\ pc = "idle" /\ page = "login"
    /\ \E autoOk \in BOOLEAN :
         RunScript("create", user_query, logged_in, user_id, auth_error,
                   FALSE, FALSE, autoOk, FALSE)
    /\ UNCHANGED <<embeddings, token, peerVars>>

\* A second session of the same process runs the script, lines 18-32 and the
\* read of its own firebase_initialized at line 433: firebase_admin._apps is
\* the process's, st.session_state is the session's.
PeerRun ==
    /\ \E initOk \in BOOLEAN :
         LET apps1 == apps \/ initOk
             fi1 == IF apps THEN peer_initialized
                    ELSE IF initOk THEN "true" ELSE "false"
         IN  /\ apps' = apps1
             /\ peer_initialized' = fi1
             /\ peer_exc' = IF ~apps1
                            THEN [type |-> "ValueError", at |-> "firestore"]
                            ELSE IF fi1 = "unset"
                            THEN [type |-> "AttributeError", at |-> "entry"]
                            ELSE NoExc
    /\ UNCHANGED << embeddings, token, firebase_initialized, logged_in, user_id,
                    auth_error, page, user_query, clicked, download_shown, pc,
                    runVars, exc, ghostVars >>

\* ------------------------------------------------- the query pipeline
\* get_top_clause, line 65: model.encode([user_query])
Embed ==
    /\ pc = "QueryReceived"
    /\ \E v \in QueryVecs : query_vec' = v
    /\ pc' = "Embedded"
    /\ UNCHANGED << sessionVars, peerVars, embeddings, token, page, user_query, clicked,
                    download_shown, top_clauses, prompt, resp, decision,
                    parsed, exc, ghostVars >>

\* get_top_clause, lines 66-67: index.search and the clause texts
Match ==
    /\ pc = "Embedded"
    /\ top_clauses' = get_top_clause(embeddings, query_vec)
    /\ pc' = "Matched"
    /\ UNCHANGED << sessionVars, peerVars, embeddings, token, page, user_query, clicked,
                    download_shown, query_vec, prompt, resp, decision,
                    parsed, exc, ghostVars >>

\* get_llm_decision, lines 74-108: the prompt and the payload
BuildPrompt ==
    /\ pc = "Matched"
    /\ prompt' = <<user_query, top_clauses>>
    /\ pc' = "PromptBuilt"
    /\ UNCHANGED << sessionVars, peerVars, embeddings, token, page, user_query, clicked,
                    download_shown, query_vec, top_clauses, resp, decision,
                    parsed, exc, ghostVars >>

\* get_llm_decision, line 111: requests.post is sent
IssueCall ==
    /\ pc = "PromptBuilt"
    /\ calls' = calls + 1
    /\ pc' = "RemoteCallIssued"
    /\ UNCHANGED << sessionVars, peerVars, embeddings, token, page, user_query, clicked,
                    download_shown, runVars, exc, produced, first_record >>

\* get_llm_decision, lines 111-127: the response arrives
Respond ==
    /\ pc = "RemoteCallIssued"
    /\ \E x \in LlmOutcomes :
         LET out == x.out
         IN  /\ resp' = x.r
             /\ IF out.ok
                THEN /\ decision' = out.v
                     /\ pc' = IF out.line = 117 THEN "RemoteSucceeded" ELSE "RemoteFailed"
                     /\ exc' = exc
                ELSE /\ decision' = decision
                     /\ pc' = "idle"
                     /\ exc' = [type |-> out.exc, at |-> "llm"]
    /\ UNCHANGED << sessionVars, peerVars, embeddings, token, page, user_query, clicked,
                    download_shown, query_vec, top_clauses, prompt, parsed,
                    ghostVars >>

\* main_app_page, lines 358-362
Parse ==
    /\ pc \in {"RemoteSucceeded", "RemoteFailed"}
    /\ LET p == (CHOOSE x \in ParseOutcomes : x.d = decision).p
       IN  IF p.ok
           THEN /\ parsed' = p.v
                /\ pc' = IF pc = "RemoteSucceeded" THEN "Parsed" ELSE "ErrorRecord"
                /\ exc' = exc
                /\ produced' = produced + 1
                /\ first_record' = IF produced = 0 THEN p.v ELSE first_record
           ELSE /\ parsed' = parsed
                /\ pc' = "idle"
                /\ exc' = [type |-> p.exc, at |-> "parse"]
                /\ UNCHANGED <<produced, first_record>>
    /\ UNCHANGED << sessionVars, peerVars, embeddings, token, page, user_query, clicked,
                    download_shown, query_vec, top_clauses, prompt, resp,
                    decision, calls >>

\* main_app_page, lines 364-401: the record and the clauses are shown, and
\* the clicked button is served
Render ==
    /\ pc \in {"Parsed", "ErrorRecord"}
    /\ LET e == ExportSummary(parsed)
       IN  IF clicked = "export" /\ ~e.ok
           THEN exc' = [type |-> e.exc, at |-> "export"] /\ download_shown' = FALSE
           ELSE exc' = exc /\ download_shown' = (clicked = "export")
    /\ pc' = "idle"
    /\ clicked' = "none"
    /\ UNCHANGED << sessionVars, peerVars, embeddings, token, page, user_query, runVars,
                    ghostVars >>

Next ==
    \/ ScriptRun
    \/ SubmitQuery
    \/ ClickBook
    \/ ClickExport
    \/ ClickDownload
    \/ ClickLogout
    \/ ClickLogin
    \/ ClickCreateAccount
    \/ PeerRun
    \/ Embed
    \/ Match
    \/ BuildPrompt
    \/ IssueCall
    \/ Respond
    \/ Parse
    \/ Render

Spec ==
    Init /\ [][Next]_vars

\* ------------------------------------------- the search as a function
\* any three clause embeddings, the app not started
SearchInit ==
    /\ embeddings \in [1..Len(clauses) -> Vectors]
    /\ apps = FALSE
    /\ token = "absent"
    /\ firebase_initialized = "unset"
    /\ logged_in = FALSE
    /\ user_id = "None"
    /\ auth_error = ""
    /\ page = "none"
    /\ user_query = ""
    /\ clicked = "none"
    /\ download_shown = FALSE
    /\ pc = "idle"
    /\ query_vec = NoVec
    /\ top_clauses = <<>>
    /\ prompt = <<>>
    /\ resp = NoResp
    /\ decision = PyNone
    /\ parsed = PyNone
    /\ exc = NoExc
    /\ calls = 0
    /\ produced = 0
    /\ first_record = PyNone
    /\ peer_initialized = "unset"
    /\ peer_exc = NoExc

\* get_top_clause on a query with any embedding
TopClauseSearch ==
    /\ \E v \in Vectors :
         /\ query_vec' = v
         /\ top_clauses' = get_top_clause(embeddings, v)
    /\ UNCHANGED << sessionVars, peerVars, embeddings, token, page, user_query, clicked,
                    download_shown, pc, prompt, resp, decision, parsed, exc,
                    ghostVars >>

SearchNext ==
    TopClauseSearch

SpecSearch ==
    SearchInit /\ [][SearchNext]_vars

\* ================================================================ claims
\* the record of the script run has been made (it is shown, then exported)
Delivered ==
    pc \in {"Parsed", "ErrorRecord"}

HasFourFields(p) ==
    \A i \in 1..Len(FourFields) : HasKey(p, FourFields[i])

\* C1: the parse step is total: whatever text the decision client hands
\* over, the record made of it has the four fields decision, reason,
\* counterclause and clause_reference, and no exception leaves the parse or
\* the export that reads the four fields.
C1_ParseTotal ==
    resp.shape \in {"garbage", "json"} =>
        /\ Delivered => HasFourFields(parsed)
        /\ exc.at \notin {"parse", "export"}

\* C2: after a transport failure (requests.post raises, or a status that is
\* not 2xx) no exception ends the run, the record is decision "error",
\* reason "API call failed: " followed by the message, empty counterclause
\* and clause_reference, and no further remote call is issued in the run.
C2_TransportFailure ==
    /\ [](resp.kind \in {"network", "status"} =>
            /\ exc = NoExc
            /\ pc \in {"RemoteFailed", "ErrorRecord", "idle"}
            /\ pc \in {"ErrorRecord", "idle"} =>
                 parsed = ErrRecord(S_ApiCallFailed \o resp.msg))
    /\ [][resp.kind \in {"network", "status"} /\ pc # "idle" => calls' = calls]_vars

\* a failed call whose message holds a quote, a backslash and a newline has
\* become the error record
C2_Witness ==
    /\ pc = "ErrorRecord"
    /\ resp.kind = "status"
    /\ \E i \in 1..Len(resp.msg) : resp.msg[i] = "\""
    /\ Subscript(parsed, K_reason) = Ok(PyStr(S_ApiCallFailed \o resp.msg))
    /\ calls = 1

UnexpectedFormatJson ==
    PyStr(JsonDumps(ErrRecord(S_UnexpectedFormat)))

\* C3: when the 2xx envelope lacks a field on the path
\* candidates[0].content.parts[0].text, get_llm_decision raises nothing and
\* returns the error record with the reason of the shape mismatch.
C3_ShapeMismatch ==
    resp.shape = "lacking" =>
        /\ exc = NoExc
        /\ decision = UnexpectedFormatJson

\* C4: when the call succeeds and the generated text is not JSON, no
\* exception ends the run and the record is decision "error" with the
\* reason "Invalid JSON response".
C4_NotJson ==
    resp.shape = "garbage" =>
        /\ exc = NoExc
        /\ pc \in {"RemoteSucceeded", "Parsed", "idle"}
        /\ pc \in {"Parsed", "idle"} =>
             /\ Subscript(parsed, K_decision) = Ok(PyStr(S_error))
             /\ Subscript(parsed, K_reason) = Ok(PyStr(S_InvalidJsonResponse))
             /\ HasFourFields(parsed)

\* the text "not json" has been parsed into the fallback record
C4_Witness ==
    /\ pc = "Parsed"
    /\ resp.text = <<"n", "o", "t", " ", "j", "s", "o", "n">>
    /\ ~JsonLoads(resp.text).ok
    /\ decision = PyStr(resp.text)
    /\ parsed = ErrRecord(S_InvalidJsonResponse)

DecisionEnum ==
    {PyStr(S_approved), PyStr(S_rejected), PyStr(S_error)}

\* C5: the decision of every delivered record is approved, rejected or
\* error (an absent or other decision is coerced to error).
C5_DecisionEnum ==
    Delivered =>
        /\ Subscript(parsed, K_decision).ok
        /\ Subscript(parsed, K_decision).v \in DecisionEnum

\* C6: for one query exactly one remote call is issued and one record is
\* produced, and the record stays what it was, whatever buttons are clicked.
C6_OncePerQuery ==
    /\ calls <= 1
    /\ produced <= 1
    /\ Delivered => parsed = first_record

\* the squared distance of the query to the clause with text c
DistanceOf(c) ==
    L2Sqr(query_vec, embeddings[CHOOSE i \in 1..Len(clauses) : clauses[i] = c])

IndexOf(c) ==
    CHOOSE i \in 1..Len(clauses) : clauses[i] = c

\* c1 ranks before c2: nearer, or as near and earlier in the corpus
RanksBefore(c1, c2) ==
    \/ DistanceOf(c1) < DistanceOf(c2)
    \/ DistanceOf(c1) = DistanceOf(c2) /\ IndexOf(c1) < IndexOf(c2)

C8_RoundTrip ==
    resp.shape = "json" /\ HasFourFields(resp.sent) =>
        /\ exc = NoExc
        /\ pc \in {"RemoteSucceeded", "Parsed", "idle"}
        /\ pc \in {"Parsed", "idle"} =>
             \A i \in 1..Len(FourFields) :
                 Subscript(parsed, FourFields[i]) = Subscript(resp.sent, FourFields[i])

\* a record whose reason holds a quote, a backslash and a newline has come
\* through the text and the parse
C8_Witness ==
    /\ pc = "Parsed"
    /\ resp.shape = "json"
    /\ HasFourFields(resp.sent)
    /\ \E i \in 1..Len(Lookup(resp.sent, K_reason).s) : Lookup(resp.sent, K_reason).s[i] = "\n"
    /\ parsed = resp.sent

\* the successors of a stage of the per-query state machine
StageSuccessors(st) ==
    CASE st = "idle" -> {"QueryReceived"}
      [] st = "QueryReceived" -> {"Embedded"}
      [] st = "Embedded" -> {"Matched"}
      [] st = "Matched" -> {"PromptBuilt"}
      [] st = "PromptBuilt" -> {"RemoteCallIssued"}
      [] st = "RemoteCallIssued" -> {"RemoteSucceeded", "RemoteFailed"}
      [] st = "RemoteSucceeded" -> {"Parsed"}
      [] st = "RemoteFailed" -> {"ErrorRecord"}
      [] OTHER -> {"idle"}

\* C9: a query goes through QueryReceived, Embedded, Matched, PromptBuilt,
\* RemoteCallIssued, then RemoteSucceeded and Parsed or RemoteFailed and
\* ErrorRecord, in this order, and the run ends only from Parsed or
\* ErrorRecord, which hold a DecisionRecord.
C9_Stages ==
    [][/\ pc' # pc => pc' \in StageSuccessors(pc)
       /\ pc' \in {"Parsed", "ErrorRecord"} => HasFourFields(parsed')]_vars

\* C10: logged_in is true only with a verified user id, and the dashboard
\* is shown only to such a session.
C10_LoggedInHasUser ==
    /\ logged_in => user_id # "None"
    /\ page = "main" => user_id # "None"

\* C11: with several sessions served by one process, in every session a
\* script run that gets past the Firebase block finds firebase_initialized
\* set in that session when the entry-point dispatch (or login_user) reads
\* it, whichever session ran the Firebase initialization block first.
C11_FlagSetBeforeRead ==
    /\ (firebase_initialized = "unset" => exc.at # "entry")
    /\ (peer_initialized = "unset" => peer_exc.at # "entry")

==========================================================================
